---- MODULE Spec2Model ----
(***************************************************************************)
(* Mutation operators of qoop.evolution.mutate over quantum circuits:      *)
(* specific_mutate, specific_mutate_testing, bitflip_mutate and            *)
(* layerflip_mutate, with the depth normalizer of                          *)
(* qoop.evolution.normalizer.                                              *)
(*                                                                         *)
(* A circuit (qc.data) is a sequence of placements                         *)
(*   [operation, qubits, clbits];                                          *)
(* an operation is [name, num_qubits, params].  Python positions are       *)
(* 0-based: position i of qc.data is element i + 1 of the sequence.        *)
(***************************************************************************)
EXTENDS Integers, Sequences, FiniteSets, TLC

\* ------------------------------------------------------------------ bounds
\* Longest input circuit handed to the site mutators.
MaxGates == 3
\* Longest input circuit handed to the bitflip mutator.
MaxBitflipGates == 2
\* Longest input circuit handed to the layerflip mutator.
MaxLayerGates == 4
\* Longest input circuit of the runs checked under fair draws.
MaxFairGates == 2

\* The qubits of every circuit (qc.num_qubits = 2).
Qubits == {0, 1}

\* ------------------------------------------------------- gates and pools
\* Gate.num_qubits of the gate classes the pool constructors build.
NumQubitsOf(name) ==
    CASE name \in {"h", "rx", "ry", "rz", "u"} -> 1
      [] name \in {"cx"} -> 2

\* The membership test  name in ["rx", "ry", "rz"].
IsRotational(name) == name \in {"rx", "ry", "rz"}

\* qiskit.circuit.Parameter(f'{index}'): a symbol named after the position.
Parameter(index) == <<index>>

\* qiskit.circuit.ParameterVector(f'{index}', n): n symbols index[0..n-1].
ParameterVector(index, n) == [k \in 1..n |-> <<index, k - 1>>]

Gate(name, params) ==
    [name |-> name, num_qubits |-> NumQubitsOf(name), params |-> params]

\* The descriptors a pool is built from: {'operation': ..., 'num_params': ...}.
Descriptors ==
    { [operation |-> "h",  num_params |-> 0],
      [operation |-> "rx", num_params |-> 1],
      [operation |-> "u",  num_params |-> 3],
      [operation |-> "cx", num_params |-> 0] }

\* Every pool over the descriptors, the empty one included.
Pools == SUBSET Descriptors

\* The three-way construction of the drawn gate.
Instantiate(new_gate, index) ==
    IF new_gate.num_params = 0
      THEN Gate(new_gate.operation, <<>>)
      ELSE IF new_gate.num_params = 1
        THEN Gate(new_gate.operation, <<Parameter(index)>>)
        ELSE Gate(new_gate.operation, ParameterVector(index, new_gate.num_params))

\* -------------------------------------------------------------- circuits
Placement(gate, qubits, clbits) ==
    [operation |-> gate, qubits |-> qubits, clbits |-> clbits]

\* Sequences of k distinct qubits.
QubitSeqs(k) ==
    {s \in [1..k -> Qubits] : \A a, b \in 1..k : a # b => s[a] # s[b]}

\* The placements an input circuit may hold at position `index`: any gate of
\* the descriptors on as many distinct qubits as its arity, no classical bit.
PlacementsAt(index) ==
    { Placement(Instantiate(d, index), q, <<>>) :
        d \in Descriptors, q \in UNION {QubitSeqs(k) : k \in 1..2} }

WellFormed(pl) == pl.operation.num_qubits = Len(pl.qubits)

RECURSIVE CircuitsOfLen(_)
CircuitsOfLen(n) ==
    IF n = 0 THEN {<<>>}
    ELSE { Append(c, pl) : c \in CircuitsOfLen(n - 1),
                           pl \in {x \in PlacementsAt(n - 1) : WellFormed(x)} }

InputCircuits(maxlen) == UNION {CircuitsOfLen(n) : n \in 0..maxlen}

\* qc.data[index]
Data(circ, index) == circ[index + 1]

\* sum(1 for gate in qc.data if gate.operation.name in ["rx", "ry", "rz"])
RotCount(circ) ==
    Cardinality({k \in 1..Len(circ) : IsRotational(circ[k].operation.name)})

\* ----------------------------------------------------------------- state
VARIABLES
    qc,                     \* the circuit object the running call works on
    qc_in,                  \* history: qc.data when the outermost call began
    pc,                     \* where the running call stands
    caller,                 \* who called the site mutator: "top" or "bitflip"
    pool,                   \* the pool argument
    index,                  \* the index argument of the site mutator
    num_qubits,             \* the num_qubits argument of specific_mutate_testing
    num_rot_gates,          \* local of specific_mutate_testing
    current_is_rotational,  \* local of specific_mutate_testing
    prob_mutate,            \* the probability, in halves (0, 1, 2 for 0, 0.5, 1)
    num_gates,              \* local of bitflip_mutate_func
    standard_depth,         \* local of layerflip_mutate
    i,                      \* the loop variable of bitflip / layerflip
    visited,                \* history: positions bitflip handed to specific_mutate
    calls                   \* history: collaborator calls layerflip has made

vars == << qc, qc_in, pc, caller, pool, index, num_qubits, num_rot_gates,
           current_is_rotational, prob_mutate, num_gates, standard_depth, i,
           visited, calls >>

siteLocals == << pool, index, num_qubits, num_rot_gates, current_is_rotational >>
loopLocals == << prob_mutate, num_gates, standard_depth, i >>
history    == << visited, calls >>

\* The values of the locals while no call runs.
NoLocals ==
    /\ caller = "top"
    /\ pool = {}
    /\ index = 0
    /\ num_qubits = 0
    /\ num_rot_gates = 0
    /\ current_is_rotational = FALSE
    /\ prob_mutate = 0
    /\ num_gates = 0
    /\ standard_depth = 0
    /\ i = 0
    /\ visited = <<>>
    /\ calls = 0

Init ==
    /\ qc \in InputCircuits(MaxGates)
    /\ qc_in = qc
    /\ pc = "idle"
    /\ NoLocals

\* ------------------------------------------------------- specific_mutate
\* Mutant: the arity test written with <= for ==.
ArityMatches_le(gate, circ, ix) ==
    gate.num_qubits <= Data(circ, ix).operation.num_qubits

\* Mutant: the arity test inverted.
ArityMatches_ne(gate, circ, ix) ==
    gate.num_qubits # Data(circ, ix).operation.num_qubits

\* gate.num_qubits == qc.data[index].operation.num_qubits
ArityMatches(gate, circ, ix) ==
    gate.num_qubits = Data(circ, ix).operation.num_qubits

\* Mutant: the overwrite always binds the first qubit alone.
Rebind_firstOnly(circ, ix, gate) ==
    [circ EXCEPT ![ix + 1] = Placement(gate, <<Data(circ, ix).qubits[1]>>, <<>>)]

\* The overwrite of qc.data[index] after the loop.
Rebind(circ, ix, gate) ==
    LET target_qubits == Data(circ, ix).qubits IN
    IF gate.num_qubits = 1
      THEN [circ EXCEPT ![ix + 1] = Placement(gate, <<target_qubits[1]>>, <<>>)]
      ELSE IF gate.num_qubits = 2
        THEN [circ EXCEPT ![ix + 1] =
                Placement(gate,
                          IF Len(target_qubits) > 1
                            THEN <<target_qubits[1], target_qubits[2]>>
                            ELSE <<target_qubits[1]>>,
                          <<>>)]
        ELSE circ

\* A caller invokes specific_mutate(qc, pool, index) on a valid position.
SM_Call ==
    /\ pc = "idle"
    /\ Len(qc) <= MaxGates
    /\ \E pl \in Pools, ix \in 0..(Len(qc) - 1) :
          /\ pool' = pl
          /\ index' = ix
    /\ pc' = "sm_loop"
    /\ caller' = "top"
    /\ qc_in' = qc
    /\ UNCHANGED << qc, num_qubits, num_rot_gates, current_is_rotational,
                    loopLocals, history >>

\* random.choice(pool) on an empty pool raises IndexError.
SM_Raise ==
    /\ pc = "sm_loop"
    /\ pool = {}
    /\ pc' = "raised"
    /\ UNCHANGED << qc, qc_in, caller, siteLocals, loopLocals, history >>

\* One iteration whose draw fails the arity test: the loop draws again.
SM_Redraw ==
    /\ pc = "sm_loop"
    /\ \E new_gate \in pool :
          ~ArityMatches(Instantiate(new_gate, index), qc, index)
    /\ UNCHANGED vars

\* One iteration whose draw passes: break, overwrite the position, return.
SM_Accept ==
    /\ pc = "sm_loop"
    /\ \E new_gate \in pool :
          LET gate == Instantiate(new_gate, index) IN
          /\ ArityMatches(gate, qc, index)
          /\ qc' = Rebind(qc, index, gate)
    /\ IF caller = "bitflip"
         THEN /\ pc' = "bf_loop"
              /\ i' = i + 1
         ELSE /\ pc' = "sm_done"
              /\ i' = i
    /\ UNCHANGED << qc_in, caller, siteLocals, prob_mutate, num_gates,
                    standard_depth, history >>

\* ----------------------------------------------- specific_mutate_testing
\* Mutant: the floor test without  not current_is_rotational.
RotationFloor_noCurrent(is_rotational, cur_rot, n_rot, n_qubits) ==
    is_rotational \/ n_rot >= n_qubits

\* Mutant: the floor test with > for >=.
RotationFloor_gt(is_rotational, cur_rot, n_rot, n_qubits) ==
    is_rotational \/ (~cur_rot /\ n_rot > n_qubits)

\* is_rotational or (not current_is_rotational and num_rot_gates >= num_qubits)
RotationFloor(is_rotational, cur_rot, n_rot, n_qubits) ==
    is_rotational \/ (~cur_rot /\ n_rot >= n_qubits)

\* The num_qubits arguments tried.
NumQubitsArgs == {Cardinality(Qubits) - 1, Cardinality(Qubits), Cardinality(Qubits) + 1}

SMT_Call ==
    /\ pc = "idle"
    /\ Len(qc) <= MaxGates
    /\ \E pl \in Pools, ix \in 0..(Len(qc) - 1), nq \in NumQubitsArgs :
          /\ pool' = pl
          /\ index' = ix
          /\ num_qubits' = nq
          /\ num_rot_gates' = RotCount(qc)
          /\ current_is_rotational' = IsRotational(Data(qc, ix).operation.name)
    /\ pc' = "smt_loop"
    /\ caller' = "top"
    /\ qc_in' = qc
    /\ UNCHANGED << qc, loopLocals, history >>

SMT_Raise ==
    /\ pc = "smt_loop"
    /\ pool = {}
    /\ pc' = "raised"
    /\ UNCHANGED << qc, qc_in, caller, siteLocals, loopLocals, history >>

\* Whether the loop of specific_mutate_testing breaks on this gate.
SMT_Breaks(gate) ==
    /\ ArityMatches(gate, qc, index)
    /\ RotationFloor(IsRotational(gate.name), current_is_rotational,
                     num_rot_gates, num_qubits)

SMT_Redraw ==
    /\ pc = "smt_loop"
    /\ \E new_gate \in pool : ~SMT_Breaks(Instantiate(new_gate, index))
    /\ UNCHANGED vars

\* qc.data[index] = (gate, target_qubits, [])
SMT_Replace(circ, ix, gate) ==
    [circ EXCEPT ![ix + 1] = Placement(gate, Data(circ, ix).qubits, <<>>)]

SMT_Accept ==
    /\ pc = "smt_loop"
    /\ \E new_gate \in pool :
          LET gate == Instantiate(new_gate, index) IN
          /\ SMT_Breaks(gate)
          /\ qc' = SMT_Replace(qc, index, gate)
    /\ pc' = "smt_done"
    /\ UNCHANGED << qc_in, caller, siteLocals, loopLocals, history >>

\* -------------------------------------------------------- bitflip_mutate
\* The probabilities tried, in halves: 0, 0.5 and 1.
Probs == {0, 1, 2}
\* The values random.random() returns, in halves: [0, 1) holds 0 and 0.5.
RandomValues == {0, 1}

\* Mutant: the comparison turned round.
BF_Hit_gt(r, p) == r > p

\* Mutant: the comparison with <= for <.
BF_Hit_le(r, p) == r <= p

\* random.random() < prob_mutate, in bitflip_mutate_func
BF_Hit(r, p) == r < p

\* bitflip_mutate(pool, prob_mutate)(qc): num_gates = len(qc.data)
BF_Call ==
    /\ pc = "idle"
    /\ Len(qc) <= MaxBitflipGates
    /\ \E pl \in Pools, p \in Probs :
          /\ pool' = pl
          /\ prob_mutate' = p
    /\ num_gates' = Len(qc)
    /\ i' = 0
    /\ pc' = "bf_loop"
    /\ qc_in' = qc
    /\ visited' = <<>>
    /\ UNCHANGED << qc, caller, index, num_qubits, num_rot_gates,
                    current_is_rotational, standard_depth, calls >>

\* One position of  for index in range(0, num_gates): the draw misses and the
\* loop moves on, or it hits and specific_mutate(qc, pool, index) is entered.
BF_Step ==
    /\ pc = "bf_loop"
    /\ i < num_gates
    /\ \E r \in RandomValues :
          IF BF_Hit(r, prob_mutate)
            THEN /\ pc' = "sm_loop"
                 /\ caller' = "bitflip"
                 /\ index' = i
                 /\ visited' = Append(visited, i)
                 /\ i' = i
            ELSE /\ i' = i + 1
                 /\ UNCHANGED << pc, caller, index, visited >>
    /\ UNCHANGED << qc, qc_in, pool, num_qubits, num_rot_gates,
                    current_is_rotational, prob_mutate, num_gates,
                    standard_depth, calls >>

\* The range is exhausted: return qc.
BF_Return ==
    /\ pc = "bf_loop"
    /\ i >= num_gates
    /\ pc' = "bf_done"
    /\ UNCHANGED << qc, qc_in, caller, siteLocals, loopLocals, history >>

\* ------------------------------------------------------ layerflip_mutate
Max(S) == CHOOSE x \in S : \A y \in S : y <= x

Range(f) == {f[x] : x \in DOMAIN f}

\* The depth each qubit has reached after the first k placements.
RECURSIVE QubitDepths(_, _)
QubitDepths(circ, k) ==
    IF k = 0 THEN [q \in Qubits |-> 0]
    ELSE LET prev  == QubitDepths(circ, k - 1)
             qs    == Range(circ[k].qubits)
             level == 1 + Max({prev[q] : q \in qs})
         IN  [q \in Qubits |-> IF q \in qs THEN level ELSE prev[q]]

\* qc.depth(): the length of the longest dependency chain.
Depth(circ) == Max({QubitDepths(circ, Len(circ))[q] : q \in Qubits})

\* The depth divider: the longest prefix of qc.data of depth at most `depth`,
\* and the rest of qc.data.
divide_circuit_by_depth(circ, depth) ==
    LET k == Max({n \in 0..Len(circ) : Depth(SubSeq(circ, 1, n)) <= depth})
    IN  << SubSeq(circ, 1, k), SubSeq(circ, k + 1, Len(circ)) >>

\* The composer: the sub-circuits one after the other.
compose_circuit(parts) == parts[1] \o parts[2] \o parts[3]

\* Mutant: the depth test turned round, so a deeper circuit is returned whole.
by_depth_func_ge(circ, depth) ==
    IF Depth(circ) >= depth
      THEN circ
      ELSE divide_circuit_by_depth(circ, depth)[1]

\* by_depth(depth)(qc)
by_depth_func(circ, depth) ==
    IF Depth(circ) <= depth
      THEN circ
      ELSE divide_circuit_by_depth(circ, depth)[1]

\* The truncation is the depth normalizer.
truncate_circuit(circ, depth) == by_depth_func(circ, depth)

\* The gates the random generator places: its own, parameter-free ones.
LayerDescriptors ==
    { [operation |-> "h",  num_params |-> 0],
      [operation |-> "cx", num_params |-> 0] }

\* Whether every gate of a circuit takes its qubits in increasing order.
Ascending(circ) ==
    \A k \in 1..Len(circ) : \A a, b \in 1..Len(circ[k].qubits) :
        a < b => circ[k].qubits[a] < circ[k].qubits[b]

\* The placements of the circuits handed to layerflip: the order of a gate's
\* qubits does not enter the depth, so each gate takes them in increasing order.
LayerPlacements ==
    { pl \in { Placement(Instantiate(d, 0), q, <<>>) :
                 d \in LayerDescriptors, q \in UNION {QubitSeqs(k) : k \in 1..2} } :
        WellFormed(pl) /\ Ascending(<<pl>>) }

RECURSIVE LayerCircuitsOfLen(_)
LayerCircuitsOfLen(n) ==
    IF n = 0 THEN {<<>>}
    ELSE { Append(c, pl) : c \in LayerCircuitsOfLen(n - 1), pl \in LayerPlacements }

LayerInputs(maxlen) == UNION {LayerCircuitsOfLen(n) : n \in 0..maxlen}

\* Whether a circuit is one layer: every qubit carries exactly one gate, the
\* gates in the order of their first qubits.
IsLayer(circ) ==
    /\ \A q \in Qubits :
          Cardinality({k \in 1..Len(circ) : q \in Range(circ[k].qubits)}) = 1
    /\ \A k, m \in 1..Len(circ) : k < m => circ[k].qubits[1] < circ[m].qubits[1]

\* generate_with_pool(num_qubits, 1): one fresh layer on the qubits.
generate_with_pool ==
    { c \in UNION {LayerCircuitsOfLen(n) : n \in 1..Cardinality(Qubits)} :
        IsLayer(c) }

\* Mutant: the comparison with <= for <.
LF_Hit_le(r, p) == r <= p

\* random.random() < prob_mutate, in layerflip_mutate
LF_Hit(r, p) == r < p

\* The first four lines of the loop body on a hit at offset `offset`: the
\* prefix, the fresh layer and the suffix without its first layer.
LF_Compose(circ, offset, genome) ==
    LET d1 == divide_circuit_by_depth(circ, offset)
        d2 == divide_circuit_by_depth(d1[2], 1)
    IN  compose_circuit(<< d1[1], genome, d2[2] >>)

\* The body of the loop on a hit at offset `offset`.
LF_Replace(circ, offset, genome, depth) ==
    truncate_circuit(LF_Compose(circ, offset, genome), depth)

InitLayer ==
    /\ qc \in LayerInputs(MaxLayerGates)
    /\ qc_in = qc
    /\ pc = "idle"
    /\ NoLocals

\* layerflip_mutate(qc, prob_mutate): standard_depth = qc.depth()
LF_Call ==
    /\ pc = "idle"
    /\ Len(qc) <= MaxLayerGates
    /\ \E p \in Probs : prob_mutate' = p
    /\ standard_depth' = Depth(qc)
    /\ i' = 0
    /\ pc' = "lf_loop"
    /\ qc_in' = qc
    /\ visited' = <<>>
    /\ calls' = 0
    /\ UNCHANGED << qc, caller, siteLocals, num_gates >>

\* One offset of  for index in range(0, standard_depth): on a hit the layer is
\* replaced (two divisions, one generation, one composition, one truncation).
LF_Step ==
    /\ pc = "lf_loop"
    /\ i < standard_depth
    /\ \E r \in RandomValues :
          IF LF_Hit(r, prob_mutate)
            THEN /\ \E genome \in generate_with_pool :
                       qc' = LF_Replace(qc, i, genome, standard_depth)
                 /\ visited' = Append(visited, i)
                 /\ calls' = calls + 5
            ELSE UNCHANGED << qc, visited, calls >>
    /\ i' = i + 1
    /\ UNCHANGED << qc_in, pc, caller, siteLocals, prob_mutate, num_gates,
                    standard_depth >>

LF_Return ==
    /\ pc = "lf_loop"
    /\ i >= standard_depth
    /\ pc' = "lf_done"
    /\ UNCHANGED << qc, qc_in, caller, siteLocals, loopLocals, history >>

\* ------------------------------------------------------------ the caller
\* The caller takes the returned circuit (or the exception) and goes on; the
\* circuit object keeps what the call wrote to it.
Return ==
    /\ pc \in {"sm_done", "smt_done", "bf_done", "lf_done", "raised"}
    /\ pc' = "idle"
    /\ qc_in' = qc
    /\ UNCHANGED qc
    /\ caller' = "top"
    /\ pool' = {}
    /\ index' = 0
    /\ num_qubits' = 0
    /\ num_rot_gates' = 0
    /\ current_is_rotational' = FALSE
    /\ prob_mutate' = 0
    /\ num_gates' = 0
    /\ standard_depth' = 0
    /\ i' = 0
    /\ visited' = <<>>
    /\ calls' = 0

Next ==
    \/ SM_Call \/ SM_Raise \/ SM_Redraw \/ SM_Accept
    \/ SMT_Call \/ SMT_Raise \/ SMT_Redraw \/ SMT_Accept
    \/ BF_Call \/ BF_Step \/ BF_Return
    \/ Return

Spec == Init /\ [][Next]_vars

NextLayer == LF_Call \/ LF_Step \/ LF_Return \/ Return

LayerSpec == InitLayer /\ [][NextLayer]_vars


\* Fair draws: a draw that is possible at every iteration is eventually made.
InitFair ==
    /\ qc \in InputCircuits(MaxFairGates)
    /\ qc_in = qc
    /\ pc = "idle"
    /\ NoLocals

FairSpec ==
    InitFair /\ [][Next]_vars /\ WF_vars(SM_Accept) /\ WF_vars(SMT_Accept)

\* ================================================================ claims
NumQ == Cardinality(Qubits)

\* A call of bitflip_mutate_func is running or has just returned.
InBitflip ==
    \/ pc \in {"bf_loop", "bf_done"}
    \/ pc = "sm_loop" /\ caller = "bitflip"

InLayerflip == pc \in {"lf_loop", "lf_done"}

\* <<0, 1, ..., n - 1>>
Upto(n) == [k \in 1..n |-> k - 1]

\* C1: when specific_mutate returns, the operation at the given position has
\* the qubit arity of the operation that was there before the call.
C1_ArityPreserved ==
    pc = "sm_done" =>
        Data(qc, index).operation.num_qubits
            = Data(qc_in, index).operation.num_qubits

C1_Witness ==
    /\ pc = "sm_done"
    /\ Data(qc, index).operation.name # Data(qc_in, index).operation.name

\* C2: a step of specific_mutate_testing called with num_qubits = Q on a
\* circuit holding at least Q rotation gates leaves at least Q rotation gates,
\* so the count never falls below Q again along a sequence of such calls.
C2_RotationFloorKept ==
    [][ (pc = "smt_loop" /\ num_qubits = NumQ /\ RotCount(qc) >= NumQ)
            => RotCount(qc') >= NumQ ]_vars

C2_Witness ==
    /\ pc = "smt_done"
    /\ num_qubits = NumQ
    /\ RotCount(qc_in) >= NumQ
    /\ ~IsRotational(Data(qc_in, index).operation.name)
    /\ qc # qc_in

\* C3: the circuit layerflip_mutate returns has the depth of its input.
C3_DepthPreserved ==
    pc = "lf_done" => Depth(qc) = Depth(qc_in)

\* C4: with probability 1 bitflip hands the positions 0..n-1 to
\* specific_mutate in increasing order, each exactly once, n being the gate
\* count read before the first mutation.
C4_EveryPositionOnce ==
    (InBitflip /\ prob_mutate = 2) =>
        /\ num_gates = Len(qc_in)
        /\ visited = Upto(IF pc = "sm_loop" THEN i + 1 ELSE i)
        /\ pc = "bf_done" => visited = Upto(num_gates)

C4_Witness ==
    /\ pc = "bf_done"
    /\ prob_mutate = 2
    /\ num_gates >= 2
    /\ qc # qc_in

\* C5: with probability 0 bitflip never enters specific_mutate and returns a
\* circuit with the gate count, the arities and the qubit bindings of its input.
C5_ProbZeroIdentity ==
    (InBitflip /\ prob_mutate = 0) =>
        /\ pc # "sm_loop"
        /\ visited = <<>>
        /\ Len(qc) = Len(qc_in)
        /\ \A k \in 1..Len(qc) :
              /\ qc[k].operation.num_qubits = qc_in[k].operation.num_qubits
              /\ qc[k].qubits = qc_in[k].qubits

C5_Witness ==
    /\ pc = "bf_done"
    /\ prob_mutate = 0
    /\ num_gates >= 2
    /\ pool # {}

\* C6: with probability 0 layerflip accepts no offset, calls none of the
\* divider, generator, composer and truncation, and returns its input.
C6_LayerProbZeroIdentity ==
    (InLayerflip /\ prob_mutate = 0) =>
        /\ visited = <<>>
        /\ calls = 0
        /\ qc = qc_in

C6_Witness ==
    /\ pc = "lf_done"
    /\ prob_mutate = 0
    /\ standard_depth >= 2

\* The pool holds a descriptor of the arity of the operation at the position.
HasArity(pl, circ, ix) ==
    \E d \in pl : NumQubitsOf(d.operation) = Data(circ, ix).operation.num_qubits

\* C7 (as claimed): with a descriptor of the position's arity in the pool the
\* redraw loop of specific_mutate ends; with none it never ends and the
\* circuit is never modified.
C7_AsClaimed ==
    /\ (pc = "sm_loop" /\ HasArity(pool, qc, index)) ~> (pc # "sm_loop")
    /\ [][ (pc = "sm_loop" /\ ~HasArity(pool, qc, index))
              => (pc' = "sm_loop" /\ qc' = qc) ]_vars

\* C7 (amended): as claimed for a pool that is not empty; on an empty pool
\* the draw raises, the circuit unmodified.
C7_LoopTermination ==
    /\ (pc = "sm_loop" /\ HasArity(pool, qc, index)) ~> (pc # "sm_loop")
    /\ [][ (pc = "sm_loop" /\ ~HasArity(pool, qc, index))
              => /\ qc' = qc
                 /\ pool # {} => pc' = "sm_loop"
                 /\ pool = {} => pc' = "raised" ]_vars

C7_Witness ==
    /\ pc = "sm_done"
    /\ HasArity(pool, qc_in, index)
    /\ \E d \in pool :
          NumQubitsOf(d.operation) # Data(qc_in, index).operation.num_qubits

\* C8: specific_mutate leaves the gate count and every other position as they
\* were; at a position of arity 1 or 2 bound to as many qubits it keeps the
\* qubits and empties the classical bits; arity equals the number of target
\* qubits at every position afterwards if it did before.
C8_OnlyThePosition ==
    pc = "sm_done" =>
        /\ Len(qc) = Len(qc_in)
        /\ \A j \in 0..(Len(qc) - 1) : j # index => Data(qc, j) = Data(qc_in, j)
        /\ (WellFormed(Data(qc_in, index))
              /\ Data(qc_in, index).operation.num_qubits \in {1, 2})
              => /\ Data(qc, index).qubits = Data(qc_in, index).qubits
                 /\ Data(qc, index).clbits = <<>>
        /\ (\A j \in 0..(Len(qc) - 1) : WellFormed(Data(qc_in, j)))
              => \A j \in 0..(Len(qc) - 1) : WellFormed(Data(qc, j))

C8_Witness ==
    /\ pc = "sm_done"
    /\ Len(qc) >= 2
    /\ Data(qc_in, index).operation.num_qubits = 2
    /\ Data(qc, index).qubits = Data(qc_in, index).qubits
    /\ \E j \in 0..(Len(qc) - 1) : Data(qc_in, j).operation.num_qubits = 1

\* C9: the truncation target of layerflip is the depth read before the loop:
\* the working circuit is never deeper than the input, and every accepted
\* replacement is made on the working circuit the previous one left.
C9_TruncatedToOriginalDepth ==
    /\ [](InLayerflip =>
            /\ standard_depth = Depth(qc_in)
            /\ Depth(qc) <= Depth(qc_in))
    /\ [][ (pc = "lf_loop" /\ visited' # visited)
              => \E genome \in generate_with_pool :
                    qc' = LF_Replace(qc, i, genome, Depth(qc_in)) ]_vars

\* One replacement has been made, and its composition was deeper than the
\* input, so that the truncation cut it back.
C9_Witness ==
    /\ pc = "lf_loop"
    /\ Len(visited) = 1
    /\ \E genome \in generate_with_pool :
          /\ qc = LF_Replace(qc_in, visited[1], genome, standard_depth)
          /\ Depth(LF_Compose(qc_in, visited[1], genome)) > standard_depth

\* The condition under which C10 says specific_mutate_testing terminates.
C10_Terminating ==
    LET pos == Data(qc, index).operation IN
    \/ \E d \in pool : /\ NumQubitsOf(d.operation) = pos.num_qubits
                       /\ IsRotational(d.operation)
    \/ /\ ~IsRotational(pos.name)
       /\ RotCount(qc) >= num_qubits
       /\ \E d \in pool : NumQubitsOf(d.operation) = pos.num_qubits

\* C10 (as claimed): specific_mutate_testing terminates exactly when the pool
\* holds a rotation descriptor of the position's arity, or the position holds
\* no rotation gate, the rotation count is at least num_qubits and the pool
\* holds a descriptor of the position's arity; otherwise it spins forever, the
\* circuit unmodified.
C10_AsClaimed ==
    /\ (pc = "smt_loop" /\ C10_Terminating) ~> (pc = "smt_done")
    /\ [][ (pc = "smt_loop" /\ ~C10_Terminating)
              => (pc' = "smt_loop" /\ qc' = qc) ]_vars

\* C10 (amended): as claimed for a pool that is not empty; on an empty pool
\* the draw raises, the circuit unmodified.
C10_TestingTermination ==
    /\ (pc = "smt_loop" /\ C10_Terminating) ~> (pc = "smt_done")
    /\ [][ (pc = "smt_loop" /\ ~C10_Terminating)
              => /\ qc' = qc
                 /\ pool # {} => pc' = "smt_loop"
                 /\ pool = {} => pc' = "raised" ]_vars

C10_Witness ==
    /\ pc = "smt_loop"
    /\ pool # {}
    /\ ~C10_Terminating
    /\ HasArity(pool, qc, index)

====
